---- MODULE Spec2Model ----
(***************************************************************************)
(* A model of codes/flightsim/world.py: the World generators (grid_forest, *)
(* random_forest, random_block, fixed_block), the nearest-obstacle query   *)
(* closest_points, and the path sampler interp_path with path_collisions.  *)
(*                                                                         *)
(* Numbers.  Every length is an integer count of quarter-hundredths        *)
(* (1 = 0.0025 length units), so that np.round(.., 2) is a real rounding   *)
(* to a multiple of Cent = 4.  Arithmetic is exact: floating-point error   *)
(* of the source's float64 arithmetic is not modelled.  Euclidean norms    *)
(* are kept squared (Dist2); the comparisons of the source are translated  *)
(* to exact comparisons of the squares (TooClose, Less, FartherThan).      *)
(* A point is <<x, y, z>>; extents are <<xmin,xmax,ymin,ymax,zmin,zmax>>.  *)
(***************************************************************************)
EXTENDS Integers, Sequences, FiniteSets, TLC

VARIABLES
    pc,         \* position of the generator call: idle, place, start, goal, done, off
    gen,        \* the generator that was called
    args,       \* the arguments of the random_block call
    bounds,     \* world_data['bounds']['extents']
    blocks,     \* world_data['blocks'], the sequence of extents
    start,      \* world_data['start'], <<>> when absent
    goal,       \* world_data['goal'], <<>> when absent
    numb,       \* random_block's counter numb
    flag,       \* random_block's flag of the last candidate's scan
    qpc,        \* the worlds closest_points was called on ({0}: harness off)
    worlds,     \* two World objects (block lists), the second a permutation of the first
    points,     \* the (N,3) array handed to closest_points
    results,    \* per world: the returned (closest_points, closest_distances), <<>> before the call
    ppc,        \* the path functions that were called ({"off"}: harness off)
    pworld,     \* the World (block list) the path is checked against
    path,       \* the waypoints
    res,        \* interp_path's resolution
    margin,     \* path_collisions' margin
    pts,        \* interp_path's result
    collisions  \* path_collisions' result

genVars   == <<pc, gen, args, bounds, blocks, start, goal, numb, flag>>
queryVars == <<qpc, worlds, points, results>>
pathVars  == <<ppc, pworld, path, res, margin, pts, collisions>>
vars      == <<genVars, queryVars, pathVars>>

-----------------------------------------------------------------------------
(* Bounds of the model *)

MaxBlocks == 3      \* num_blocks ranges over 0..MaxBlocks
MaxTrees == 2       \* num_trees ranges over 0..MaxTrees
MaxQBlocks == 2     \* a queried world holds at most this many blocks
NumPoints == 2      \* rows of the points array handed to closest_points
MaxWaypoints == 3   \* a path holds 2..MaxWaypoints waypoints

(* The sample values np.random.uniform is let to return, per axis. *)
GridX == {100, 400, 1025, 1960}
GridY == {100, 136, 200}
GridZ == {100, 200, 600, 1600}

-----------------------------------------------------------------------------
(* Arithmetic helpers *)

Cent == 4           \* 0.01, the grid np.round(.., 2) rounds to

Inf == -1           \* np.inf as a squared distance

Max(a, b) == IF a >= b THEN a ELSE b

\* np.round(v, 2): to the nearest multiple of 0.01, halves to the even one.
Round2(v) ==
    LET q == v \div Cent
        rm == v % Cent
    IN  IF 2 * rm < Cent THEN Cent * q
        ELSE IF 2 * rm > Cent THEN Cent * (q + 1)
        ELSE IF q % 2 = 0 THEN Cent * q ELSE Cent * (q + 1)

RoundExtents(e) == [i \in 1..6 |-> Round2(e[i])]

\* mutant: the upper bound of the clip is lost
ClipLowerOnly(v, lo, hi) == IF v < lo THEN lo ELSE v

\* np.clip(v, lo, hi) == minimum(maximum(v, lo), hi)
Clip(v, lo, hi) ==
    LET a == IF v < lo THEN lo ELSE v
    IN  IF a > hi THEN hi ELSE a

\* np.linalg.norm(p - q) squared
Dist2(p, q) ==
    (p[1] - q[1]) * (p[1] - q[1]) + (p[2] - q[2]) * (p[2] - q[2])
        + (p[3] - q[3]) * (p[3] - q[3])

\* sqrt(d2) < sqrt(a) + c for naturals d2, a, c, decided exactly:
\* d2 < a + c^2 + 2c*sqrt(a)  <=>  l < 2c*sqrt(a) with l = d2 - a - c^2.
TooClose(d2, a, c) ==
    LET l == d2 - a - c * c
    IN  IF l < 0 THEN TRUE
        ELSE IF c = 0 THEN FALSE
        ELSE LET q == l \div (2 * c)
                 rm == l % (2 * c)
             IN  IF q * q >= a THEN FALSE
                 ELSE IF (q + 1) * (q + 1) <= a THEN TRUE
                 ELSE rm * (4 * c * q + rm) < 4 * c * c * (a - q * q)

\* sqrt(d2) > c
FartherThan(d2, c) == d2 = Inf \/ c < 0 \/ d2 > c * c

\* d < closest_distances, on squared distances with Inf
Less(d2, cd2) == cd2 = Inf \/ d2 < cd2

\* np.random.uniform(lo, hi) restricted to the sample grid
Uniform(lo, hi, grid) ==
    IF lo < hi THEN {v \in grid : lo <= v /\ v < hi}
    ELSE IF lo = hi THEN {lo}
    ELSE {v \in grid : hi < v /\ v <= lo}

-----------------------------------------------------------------------------
(* closest_points, per row of the points array *)

\* the clamp of point p onto the block with extents r
ClipPoint(p, r) == [i \in 1..3 |-> Clip(p[i], r[2 * i - 1], r[2 * i])]

\* mutant: the closest point is written without the mask
ScanStepOverwrite(acc, r, p) ==
    LET cl == [i \in 1..3 |-> Clip(p[i], r[2 * i - 1], r[2 * i])]
        d == Dist2(p, cl)
    IN  IF acc[2] = Inf \/ d < acc[2] THEN <<cl, d>> ELSE <<cl, acc[2]>>

\* one pass of the loop over blocks for one row: acc = <<closest point, closest distance>>
ScanStep(acc, r, p) ==
    LET cl == ClipPoint(p, r)
        d == Dist2(p, cl)
        mask == Less(d, acc[2])
    IN  IF mask THEN <<cl, d>> ELSE acc

RECURSIVE ScanFrom(_, _, _, _)
ScanFrom(blks, k, acc, p) ==
    IF k > Len(blks) THEN acc
    ELSE ScanFrom(blks, k + 1, ScanStep(acc, blks[k], p), p)

\* closest_points for one row p whose closest_points entry starts as `empty`
ClosestRow(blks, p, empty) == ScanFrom(blks, 1, <<empty, Inf>>, p)

\* the closest distance alone (the closest point is whatever np.empty_like held
\* when there is no block; the generators never read it)
ClosestDist(blks, p) == ClosestRow(blks, p, p)[2]

-----------------------------------------------------------------------------
(* random_block *)

\* The parameter sets random_block is called with (num_blocks is drawn apart).
\* Widths and heights are even, so w/2 and h/2 are exact.
BlockParams ==
    { [lower |-> <<0, 0, 0>>, upper |-> <<2200, 400, 400>>,
       w |-> 200, h |-> 200, r |-> 100, m |-> 80],
      [lower |-> <<0, 0, 0>>, upper |-> <<600, 400, 2400>>,
       w |-> 200, h |-> 1200, r |-> 100, m |-> 80] }

\* the extents of a block centred at pt, as stored
BlockExtents(pt, w, h) ==
    RoundExtents(<<pt[1] - w \div 2, pt[1] + w \div 2, pt[2] - w \div 2,
                   pt[2] + w \div 2, pt[3] - h \div 2, pt[3] + h \div 2>>)

\* candidate centres of a block
BlockCandidates(a) ==
    Uniform(a.lower[1] + a.w \div 2, a.upper[1] - a.w \div 2, GridX)
        \X Uniform(a.lower[2] + a.w \div 2, a.upper[2] - a.w \div 2, GridY)
        \X Uniform(a.lower[3] + a.h \div 2, a.upper[3] - a.h \div 2, GridZ)

\* candidate start and goal points
PointCandidates(a) ==
    Uniform(a.lower[1] + (a.r + a.m), a.upper[1] - (a.r + a.m), GridX)
        \X Uniform(a.lower[2] + (a.r + a.m), a.upper[2] - (a.r + a.m), GridY)
        \X Uniform(a.lower[3] + (a.r + a.m), a.upper[3] - (a.r + a.m), GridZ)

\* the distance test of candidate pt against block k
TestBlock(blks, k, pt, a) ==
    TooClose(Dist2(<<blks[k][1] + a.w \div 2, blks[k][3] + a.w \div 2,
                     blks[k][5] + a.h \div 2>>, pt),
             8 * a.w * a.w, 2 * a.r + 2 * a.m)

\* the inner while loop over k: flag
RECURSIVE ScanBlocks(_, _, _, _)
ScanBlocks(blks, k, pt, a) ==
    IF TestBlock(blks, k, pt, a) THEN 1
    ELSE IF k + 1 > Len(blks) THEN 0
    ELSE ScanBlocks(blks, k + 1, pt, a)

MinGoalDist == 300 * Cent   \* the 3 of the goal test

\* mutant: the goal's clearance test is lost
StartAccepts(blks, p, a) == FartherThan(ClosestDist(blks, p), a.r + a.m)

\* mutant: the goal's clearance test is lost
GoalAcceptsNoClearance(blks, st, p, a) == Dist2(st, p) > MinGoalDist * MinGoalDist

GoalAccepts(blks, st, p, a) ==
    /\ FartherThan(ClosestDist(blks, p), a.r + a.m)
    /\ Dist2(st, p) > MinGoalDist * MinGoalDist

\* lines 283-295: the bounds, the first block, and the branch on num_blocks
RandomBlockCall ==
    /\ pc = "idle"
    /\ \E a \in BlockParams, n \in 0..MaxBlocks : \E pt \in BlockCandidates(a) :
        /\ gen' = "random_block"
        /\ args' = [lower |-> a.lower, upper |-> a.upper, w |-> a.w, h |-> a.h,
                    r |-> a.r, m |-> a.m, num_blocks |-> n]
        /\ bounds' = <<a.lower[1], a.upper[1], a.lower[2], a.upper[2],
                       a.lower[3], a.upper[3]>>
        /\ blocks' = <<BlockExtents(pt, a.w, a.h)>>
        /\ IF n > 1 THEN pc' = "place" /\ numb' = 1
                    ELSE pc' = "start" /\ numb' = 0
    /\ UNCHANGED <<start, goal, flag, queryVars, pathVars>>

\* lines 298-319: a candidate that is too close to a placed block is dropped
PlaceReject ==
    /\ pc = "place"
    /\ \E pt \in BlockCandidates(args) :
        /\ ScanBlocks(blocks, 1, pt, args) = 1
        /\ flag' = 1
    /\ UNCHANGED <<pc, gen, args, bounds, blocks, start, goal, numb,
                   queryVars, pathVars>>

\* mutant: numb += 1 is lost
PlaceAcceptNoCount ==
    /\ pc = "place"
    /\ \E pt \in BlockCandidates(args) :
        /\ ScanBlocks(blocks, 1, pt, args) = 0
        /\ flag' = 0
        /\ blocks' = Append(blocks, BlockExtents(pt, args.w, args.h))
        /\ numb' = numb
        /\ pc' = IF numb >= args.num_blocks THEN "start" ELSE "place"
    /\ UNCHANGED <<gen, args, bounds, start, goal, queryVars, pathVars>>

\* mutant: the loop ends one block late
PlaceAcceptOffByOne ==
    /\ pc = "place"
    /\ \E pt \in BlockCandidates(args) :
        /\ ScanBlocks(blocks, 1, pt, args) = 0
        /\ flag' = 0
        /\ blocks' = Append(blocks, BlockExtents(pt, args.w, args.h))
        /\ numb' = numb + 1
        /\ pc' = IF numb + 1 > args.num_blocks THEN "start" ELSE "place"
    /\ UNCHANGED <<gen, args, bounds, start, goal, queryVars, pathVars>>

\* lines 298-330: a candidate that passes is appended, and the loop ends at num_blocks
PlaceAccept ==
    /\ pc = "place"
    /\ \E pt \in BlockCandidates(args) :
        /\ ScanBlocks(blocks, 1, pt, args) = 0
        /\ flag' = 0
        /\ blocks' = Append(blocks, BlockExtents(pt, args.w, args.h))
        /\ numb' = numb + 1
        /\ pc' = IF numb + 1 >= args.num_blocks THEN "start" ELSE "place"
    /\ UNCHANGED <<gen, args, bounds, start, goal, queryVars, pathVars>>

\* lines 334-358
StartReject ==
    /\ pc = "start"
    /\ \E p \in PointCandidates(args) : ~StartAccepts(blocks, p, args)
    /\ UNCHANGED vars

StartAccept ==
    /\ pc = "start"
    /\ \E p \in PointCandidates(args) :
        /\ StartAccepts(blocks, p, args)
        /\ start' = p
    /\ pc' = "goal"
    /\ UNCHANGED <<gen, args, bounds, blocks, goal, numb, flag, queryVars, pathVars>>

\* lines 360-387
GoalReject ==
    /\ pc = "goal"
    /\ \E p \in PointCandidates(args) : ~GoalAccepts(blocks, start, p, args)
    /\ UNCHANGED vars

\* lines 360-389
GoalAccept ==
    /\ pc = "goal"
    /\ \E p \in PointCandidates(args) :
        /\ GoalAccepts(blocks, start, p, args)
        /\ goal' = p
    /\ pc' = "done"
    /\ UNCHANGED <<gen, args, bounds, blocks, start, numb, flag, queryVars, pathVars>>

-----------------------------------------------------------------------------
(* The other generators *)

NoArgs == [lower |-> <<0, 0, 0>>, upper |-> <<0, 0, 0>>, w |-> 0, h |-> 0,
           r |-> 0, m |-> 0, num_blocks |-> 0]

\* lines 216-230
GridBlocks(n_rows, n_cols, width, height, spacing) ==
    [i \in 1..(n_cols * n_rows) |->
        LET x == spacing * ((i - 1) \div n_rows)
            y == spacing * ((i - 1) % n_rows)
        IN  <<x, x + width, y, y + width, 0, height>>]

GridForest ==
    /\ pc = "idle"
    /\ \E n_rows \in 1..2, n_cols \in 1..2, width \in {200}, height \in {200, 1200},
          spacing \in {100, 800} :
        /\ bounds' = <<0, (n_cols - 1) * spacing + width, 0,
                       (n_rows - 1) * spacing + width, 0, height>>
        /\ blocks' = GridBlocks(n_rows, n_cols, width, height, spacing)
    /\ gen' = "grid_forest"
    /\ pc' = "done"
    /\ UNCHANGED <<args, start, goal, numb, flag, queryVars, pathVars>>

\* lines 249-262
RandomForest ==
    /\ pc = "idle"
    /\ \E world_dims \in {<<2000, 400, 400>>}, tree_width \in {200},
          tree_height \in {200, 1200}, num_trees \in 0..MaxTrees :
        \E xs \in [1..num_trees -> Uniform(0, world_dims[1], GridX)],
           ys \in [1..num_trees -> Uniform(0, world_dims[2], GridY)] :
            /\ bounds' = <<0, world_dims[1], 0, world_dims[2], 0, world_dims[3]>>
            /\ blocks' = [i \in 1..num_trees |->
                             RoundExtents(<<xs[i], xs[i] + tree_width, ys[i],
                                            ys[i] + tree_width, 0, tree_height>>)]
    /\ gen' = "random_forest"
    /\ pc' = "done"
    /\ UNCHANGED <<args, start, goal, numb, flag, queryVars, pathVars>>

\* lines 391-409
FixedBlock ==
    /\ pc = "idle"
    /\ \E lower \in {<<0, 0, 0>>, <<-800, -800, 0>>},
          upper \in {<<2000, 400, 400>>, <<1200, 1200, 1200>>} :
        bounds' = <<lower[1], upper[1], lower[2], upper[2], lower[3], upper[3]>>
    /\ blocks' = << <<-600, -400, -400, -200, 0, 800>>,
                    <<0, 200, -400, -200, 0, 800>>,
                    <<600, 800, 400, 600, 0, 800>>,
                    <<600, 800, -400, -200, 0, 800>> >>
    /\ start' = <<-600, -600, 200>>
    /\ goal' = <<800, 0, 600>>
    /\ gen' = "fixed_block"
    /\ pc' = "done"
    /\ UNCHANGED <<args, numb, flag, queryVars, pathVars>>

-----------------------------------------------------------------------------
(* The harnesses that are switched off in a specification *)

QueryOff ==
    /\ qpc = {0}
    /\ worlds = <<>>
    /\ points = <<>>
    /\ results = <<>>

PathOff ==
    /\ ppc = {"off"}
    /\ pworld = <<>>
    /\ path = <<>>
    /\ res = 0
    /\ margin = 0
    /\ pts = <<>>
    /\ collisions = <<>>

GenOff ==
    /\ pc = "off"
    /\ gen = "none"
    /\ args = NoArgs
    /\ bounds = <<>>
    /\ blocks = <<>>
    /\ start = <<>>
    /\ goal = <<>>
    /\ numb = 0
    /\ flag = 0

-----------------------------------------------------------------------------
(* The generators: one call of one generator *)

Init ==
    /\ pc = "idle"
    /\ gen = "none"
    /\ args = NoArgs
    /\ bounds = <<>>
    /\ blocks = <<>>
    /\ start = <<>>
    /\ goal = <<>>
    /\ numb = 0
    /\ flag = 0
    /\ QueryOff
    /\ PathOff

Next ==
    \/ RandomBlockCall
    \/ PlaceReject
    \/ PlaceAccept
    \/ StartReject
    \/ StartAccept
    \/ GoalReject
    \/ GoalAccept
    \/ GridForest
    \/ RandomForest
    \/ FixedBlock

Spec == Init /\ [][Next]_vars

\* Fair sampling: a candidate that the loop accepts is eventually drawn.
FairSpec ==
    /\ Init
    /\ [][Next]_vars
    /\ WF_vars(PlaceAccept)
    /\ WF_vars(StartAccept)
    /\ WF_vars(GoalAccept)

-----------------------------------------------------------------------------
(* Claims about the generators *)

Returned(g) == pc = "done" /\ gen = g

\* the centre of stored extents (the stored bounds are multiples of Cent, so the
\* sums are even)
Centre(e) == <<(e[1] + e[2]) \div 2, (e[3] + e[4]) \div 2, (e[5] + e[6]) \div 2>>

\* the distance between two boxes, squared
AxisGap(e, f, i) == Max(0, Max(e[2 * i - 1] - f[2 * i], f[2 * i - 1] - e[2 * i]))

BoxGap2(e, f) ==
    AxisGap(e, f, 1) * AxisGap(e, f, 1) + AxisGap(e, f, 2) * AxisGap(e, f, 2)
        + AxisGap(e, f, 3) * AxisGap(e, f, 3)

Intersect(e, f) == \A i \in 1..3 : e[2 * i - 1] <= f[2 * i] /\ f[2 * i - 1] <= e[2 * i]

InsideBox(p, e) == \A i \in 1..3 : e[2 * i - 1] <= p[i] /\ p[i] <= e[2 * i]

ExtentsInside(e, f) == \A i \in 1..3 : f[2 * i - 1] <= e[2 * i - 1] /\ e[2 * i] <= f[2 * i]

\* C1: in every world random_block returns, no two distinct blocks have centres
\* (of the stored, rounded extents) closer than 2*sqrt(2*w^2) + 2*robot_radii + 2*margin.
C1_CentresApart ==
    Returned("random_block") =>
        \A i, j \in 1..Len(blocks) :
            i # j => ~TooClose(Dist2(Centre(blocks[i]), Centre(blocks[j])),
                               8 * args.w * args.w, 2 * args.r + 2 * args.m)

\* C2: in every world random_block returns, start and goal are each farther than
\* robot_radii + margin from every block, and start and goal are more than 3 apart.
C2_StartGoalClear ==
    Returned("random_block") =>
        /\ \A k \in 1..Len(blocks) :
                /\ Dist2(start, ClipPoint(start, blocks[k])) > (args.r + args.m) * (args.r + args.m)
                /\ Dist2(goal, ClipPoint(goal, blocks[k])) > (args.r + args.m) * (args.r + args.m)
        /\ Dist2(start, goal) > MinGoalDist * MinGoalDist

\* a returned world with several blocks, a start and a goal
C2_Witness ==
    /\ Returned("random_block")
    /\ Len(blocks) >= 2
    /\ Len(start) = 3
    /\ Len(goal) = 3

\* C3: in every world random_block returns, no two distinct blocks intersect and
\* the gap between any two leaves room for an agent of radius robot_radii + margin.
C3_NoOverlap ==
    Returned("random_block") =>
        \A i, j \in 1..Len(blocks) :
            i # j =>
                /\ ~Intersect(blocks[i], blocks[j])
                /\ BoxGap2(blocks[i], blocks[j])
                       >= (2 * (args.r + args.m)) * (2 * (args.r + args.m))

\* C4: every generator returns a world whose blocks lie inside the bounds, and
\* whose start and goal, when present, lie inside the bounds.
C4_InsideBounds ==
    pc = "done" =>
        /\ \A k \in 1..Len(blocks) : ExtentsInside(blocks[k], bounds)
        /\ start # <<>> => InsideBox(start, bounds)
        /\ goal # <<>> => InsideBox(goal, bounds)

\* the loops of random_block and whether a candidate passes
PlaceOK == \E pt \in BlockCandidates(args) : ScanBlocks(blocks, 1, pt, args) = 0

StartOK == \E p \in PointCandidates(args) : StartAccepts(blocks, p, args)

GoalOK == \E p \in PointCandidates(args) : GoalAccepts(blocks, start, p, args)

Stuck ==
    \/ pc = "place" /\ ~PlaceOK
    \/ pc = "start" /\ ~StartOK
    \/ pc = "goal" /\ ~GoalOK

\* C9: the rejection loops of random_block have no cap and no failure path: under
\* fair sampling a loop is left (towards the return) whenever some candidate
\* passes its test, and a loop where no candidate passes is retried forever.
C9_LoopsEndIffCandidate ==
    /\ \A n \in 1..(MaxBlocks + 1) :
           (pc = "place" /\ numb = n /\ PlaceOK) ~> ~(pc = "place" /\ numb = n)
    /\ (pc = "start" /\ StartOK) ~> (pc = "goal")
    /\ (pc = "goal" /\ GoalOK) ~> Returned("random_block")
    /\ [][Stuck => (Stuck' /\ pc' = pc /\ blocks' = blocks /\ start' = start)]_vars
    /\ [](pc \in {"idle", "place", "start", "goal", "done"})

\* a loop where no candidate passes
C9_Witness == Stuck /\ flag = 1

\* C10: random_block returns exactly max(1, num_blocks) blocks; the loop appends
\* one block per accepted candidate, none per rejected one, and ends at num_blocks.
C10_BlockCount ==
    /\ [](gen = "random_block" =>
            /\ pc \in {"start", "goal", "done"} => Len(blocks) = Max(1, args.num_blocks)
            /\ pc = "place" => numb = Len(blocks) /\ numb < args.num_blocks)
    /\ [][pc = "place" =>
            \/ flag' = 1 /\ blocks' = blocks /\ pc' = "place"
            \/ /\ flag' = 0
               /\ Len(blocks') = Len(blocks) + 1
               /\ pc' = "start" <=> Len(blocks') = args.num_blocks]_vars

\* a returned world whose loop dropped a candidate before the last block
C10_Witness ==
    /\ gen = "random_block"
    /\ pc = "start"
    /\ Len(blocks) = 3
    /\ args.num_blocks = 3

-----------------------------------------------------------------------------
(* closest_points on a World constructed from data *)

\* the blocks the queried worlds are built from; the last is flat (xmin = xmax)
QBoxes ==
    { <<0, 2, 0, 2, 0, 2>>, <<4, 6, 0, 2, 0, 2>>, <<1, 5, 1, 3, 0, 2>>,
      <<3, 3, 0, 4, 0, 2>> }

\* the rows of the points array
QPoints == { <<1, 1, 1>>, <<3, 1, 1>>, <<3, 5, 1>>, <<-1, 1, 3>> }

\* what np.empty_like may hold before a row is written
Garbage == { <<0, 0, 0>>, <<9, 9, 9>> }

BlockLists == UNION {[1..n -> QBoxes] : n \in 0..MaxQBlocks}

Reorderings(seq) ==
    { [i \in 1..Len(seq) |-> seq[f[i]]] :
        f \in {g \in [1..Len(seq) -> 1..Len(seq)] :
                  \A i, j \in 1..Len(seq) : g[i] = g[j] => i = j} }

\* lines 87-101, row by row (the rows of the array are independent)
ClosestPoints(blks, pnts, empty) ==
    [closest_points |->
        [n \in 1..Len(pnts) |-> ClosestRow(blks, pnts[n], empty[n])[1]],
     closest_distances |->
        [n \in 1..Len(pnts) |-> ClosestRow(blks, pnts[n], empty[n])[2]]]

\* World(world_data) for two block lists, one a permutation of the other
QueryInit ==
    /\ GenOff
    /\ PathOff
    /\ qpc = {}
    /\ \E bl \in BlockLists : \E pm \in Reorderings(bl) : worlds = <<bl, pm>>
    /\ points \in [1..NumPoints -> QPoints]
    /\ results = << <<>>, <<>> >>

ClosestPointsCall ==
    \E i \in {1, 2} :
        /\ i \notin qpc
        /\ {0} # qpc
        /\ \E empty \in [1..Len(points) -> Garbage] :
              results' = [results EXCEPT ![i] = ClosestPoints(worlds[i], points, empty)]
        /\ qpc' = qpc \cup {i}
        /\ UNCHANGED <<worlds, points, genVars, pathVars>>

QueryNext == ClosestPointsCall

QuerySpec == QueryInit /\ [][QueryNext]_vars

-----------------------------------------------------------------------------
(* interp_path and path_collisions.  In this harness one unit of length is  *)
(* the 0.001 of path_collisions' resolution.  Paths are made of axis-       *)
(* parallel segments, so that every arc length and every sample is an       *)
(* integer.                                                                 *)

PathRes == 1    \* res=0.001 of path_collisions

WayPoints == {<<x, y, 0>> : x \in 0..3, y \in 0..1}

Abs(v) == IF v < 0 THEN -v ELSE v

\* np.linalg.norm of one row of np.diff(path), for an axis-parallel segment
SegLen(p, q) == Abs(q[1] - p[1]) + Abs(q[2] - p[2]) + Abs(q[3] - p[3])

AxisParallel(p, q) == Cardinality({i \in 1..3 : p[i] # q[i]}) <= 1

Paths ==
    UNION { {pa \in [1..n -> WayPoints] :
                \A i \in 1..(n - 1) : AxisParallel(pa[i], pa[i + 1])} :
            n \in 2..MaxWaypoints }

Resolutions == {1, 2, 3}

Margins == {0, 1}

PathWorlds ==
    { <<>>, << <<1, 3, -1, 2, -1, 1>> >>,
      << <<1, 3, -1, 2, -1, 1>>, <<0, 3, 3, 4, 0, 0>> >> }

\* t = np.insert(cumdist, 0, 0): t[j] is the arc length at waypoint j
RECURSIVE ArcAt(_, _)
ArcAt(pa, j) == IF j <= 1 THEN 0 ELSE ArcAt(pa, j - 1) + SegLen(pa[j - 1], pa[j])

\* mutant: floor(stop/step) values
ArangeFloor(stop, step) == [k \in 1..(stop \div step) |-> (k - 1) * step]

\* np.arange(0, stop, step): ceil(stop/step) values
Arange(stop, step) == [k \in 1..((stop + step - 1) \div step) |-> (k - 1) * step]

\* np.interp(x, t, fp) for t[1] <= x < t[n]: linear between the knots around x
Interp(x, pa, c) ==
    LET j == CHOOSE i \in 1..(Len(pa) - 1) : ArcAt(pa, i) <= x /\ x < ArcAt(pa, i + 1)
    IN  pa[j][c] + ((x - ArcAt(pa, j)) * (pa[j + 1][c] - pa[j][c]))
                       \div (ArcAt(pa, j + 1) - ArcAt(pa, j))

\* lines 13-23
InterpPath(pa, rs) ==
    IF ArcAt(pa, Len(pa)) > 0
    THEN LET ts == Arange(ArcAt(pa, Len(pa)), rs)
         IN  [k \in 1..Len(ts) |-> <<Interp(ts[k], pa, 1), Interp(ts[k], pa, 2),
                                      Interp(ts[k], pa, 3)>>]
    ELSE <<pa[1]>>

\* closest_dist < margin
Collides(blks, p, mg) ==
    LET cd == ClosestDist(blks, p)
    IN  cd # Inf /\ mg > 0 /\ cd < mg * mg

\* pts[collisions]
RECURSIVE Select(_, _, _)
Select(ps, blks, mg) ==
    IF ps = <<>> THEN <<>>
    ELSE IF Collides(blks, Head(ps), mg)
         THEN <<Head(ps)>> \o Select(Tail(ps), blks, mg)
         ELSE Select(Tail(ps), blks, mg)

\* lines 108-111
PathCollisions(blks, pa, mg) == Select(InterpPath(pa, PathRes), blks, mg)

PathInit ==
    /\ GenOff
    /\ QueryOff
    /\ ppc = {}
    /\ pworld \in PathWorlds
    /\ path \in Paths
    /\ res \in Resolutions
    /\ margin \in Margins
    /\ pts = <<>>
    /\ collisions = <<>>

InterpPathCall ==
    /\ "off" \notin ppc
    /\ "interp_path" \notin ppc
    /\ pts' = InterpPath(path, res)
    /\ ppc' = ppc \cup {"interp_path"}
    /\ UNCHANGED <<pworld, path, res, margin, collisions, genVars, queryVars>>

PathCollisionsCall ==
    /\ "off" \notin ppc
    /\ "path_collisions" \notin ppc
    /\ collisions' = PathCollisions(pworld, path, margin)
    /\ ppc' = ppc \cup {"path_collisions"}
    /\ UNCHANGED <<pworld, path, res, margin, pts, genVars, queryVars>>

PathNext ==
    \/ InterpPathCall
    \/ PathCollisionsCall

PathSpec == PathInit /\ [][PathNext]_vars

-----------------------------------------------------------------------------
(* Claims about closest_points *)

\* the per-axis clamp of p onto the intervals of e, stated on its own
Clamp(p, e) ==
    [i \in 1..3 |->
        IF p[i] < e[2 * i - 1] THEN e[2 * i - 1]
        ELSE IF p[i] > e[2 * i] THEN e[2 * i] ELSE p[i]]

OnBoundary(q, e) ==
    /\ InsideBox(q, e)
    /\ \E i \in 1..3 : q[i] = e[2 * i - 1] \/ q[i] = e[2 * i]

\* the blocks of blks at the least distance from p
Nearest(blks, p) ==
    {k \in 1..Len(blks) :
        \A l \in 1..Len(blks) : Dist2(p, Clamp(p, blks[k])) <= Dist2(p, Clamp(p, blks[l]))}

RowCorrect(blks, p, cp, cd) ==
    /\ Len(blks) = 0 => cd = Inf
    /\ Len(blks) > 0 =>
          \E k \in Nearest(blks, p) : cd = Dist2(p, Clamp(p, blks[k])) /\ cp = Clamp(p, blks[k])
    /\ (\E k \in 1..Len(blks) : InsideBox(p, blks[k])) => cd = 0 /\ cp = p
    /\ (Len(blks) > 0 /\ \A k \in 1..Len(blks) : ~InsideBox(p, blks[k])) =>
          cd > 0 /\ \E k \in 1..Len(blks) : OnBoundary(cp, blks[k])

\* C5: closest_points returns, per point, the least distance to the point's clamp
\* onto a block and the clamp for a block attaining it: distance 0 and the point
\* itself inside a block, a positive distance and a point of a block's boundary
\* outside every block, and an infinite distance when there are no blocks.
C5_ClosestPoints ==
    \A i \in qpc \ {0} : \A n \in 1..Len(points) :
        RowCorrect(worlds[i], points[n], results[i].closest_points[n],
                   results[i].closest_distances[n])

\* a query of two blocks with one point inside a block and one outside both
C5_Witness ==
    /\ 1 \in qpc
    /\ Len(worlds[1]) = 2
    /\ \E n \in 1..Len(points) : results[1].closest_distances[n] = 0
    /\ \E n \in 1..Len(points) : results[1].closest_distances[n] > 0

BothQueried == qpc = {1, 2}

\* C7 as stated: for every block list, every permutation of it and every point,
\* closest_points returns the same closest point and the same closest distance.
C7_OrderIrrelevant ==
    (BothQueried /\ Len(worlds[1]) > 0) => results[1] = results[2]

\* the blocks nearest to p all clamp p to one point
OneNearestPoint(blks, p) ==
    \A k, l \in Nearest(blks, p) : Clamp(p, blks[k]) = Clamp(p, blks[l])

\* C7, amended: the closest distance is the same for every permutation, and so
\* is the closest point unless blocks at the same least distance clamp the point
\* to different points (then the first of them in list order gives it).
C7_OrderIrrelevantUpToTies ==
    (BothQueried /\ Len(worlds[1]) > 0) =>
        \A n \in 1..Len(points) :
            /\ results[1].closest_distances[n] = results[2].closest_distances[n]
            /\ OneNearestPoint(worlds[1], points[n]) =>
                  results[1].closest_points[n] = results[2].closest_points[n]
            /\ \A i \in {1, 2} :
                  LET first == CHOOSE k \in Nearest(worlds[i], points[n]) :
                                   \A l \in Nearest(worlds[i], points[n]) : k <= l
                  IN  results[i].closest_points[n] = Clamp(points[n], worlds[i][first])

\* two different orders of two blocks, both queried
C7_Witness ==
    /\ BothQueried
    /\ Len(worlds[1]) = 2
    /\ worlds[1] # worlds[2]
    /\ \E n \in 1..Len(points) : OneNearestPoint(worlds[1], points[n])

-----------------------------------------------------------------------------
(* Claims about interp_path and path_collisions *)

TotalLength == ArcAt(path, Len(path))

\* q is the point of the polyline pa at arc length s
OnPolylineAt(q, pa, s) ==
    \E i \in 1..(Len(pa) - 1) :
        /\ ArcAt(pa, i) <= s
        /\ s <= ArcAt(pa, i + 1)
        /\ SegLen(pa[i], q) = s - ArcAt(pa, i)
        /\ SegLen(pa[i], q) + SegLen(q, pa[i + 1]) = SegLen(pa[i], pa[i + 1])

\* C8: for a path of at least 2 waypoints of length L and res > 0, interp_path
\* returns, when L > 0, exactly the points at arc lengths k*res < L (k >= 0): the
\* first is the first waypoint, there are ceil(L/res) of them and none at arc
\* length L; when L = 0 it returns the first waypoint alone.
C8_InterpPath ==
    "interp_path" \in ppc =>
        IF TotalLength > 0
        THEN /\ Len(pts) = Cardinality({k \in 0..TotalLength : k * res < TotalLength})
             /\ (Len(pts) - 1) * res < TotalLength
             /\ Len(pts) * res >= TotalLength
             /\ \A k \in 1..Len(pts) : OnPolylineAt(pts[k], path, (k - 1) * res)
             /\ pts[1] = path[1]
        ELSE pts = <<path[1]>>

\* a path with a corner, sampled at a resolution that does not divide its length
C8_Witness ==
    /\ "interp_path" \in ppc
    /\ Len(path) = 3
    /\ path[1][1] # path[2][1]
    /\ path[2][2] # path[3][2]
    /\ TotalLength % res # 0
    /\ Len(pts) >= 2

StrictlyInside(p, e) == \A i \in 1..3 : e[2 * i - 1] < p[i] /\ p[i] < e[2 * i]

DenseSamples == InterpPath(path, PathRes)

\* C6: path_collisions returns a non-empty set for a path through the interior
\* of a block with margin 0, and an empty set for a path whose every dense
\* sample is farther than margin from every block.
C6_PathCollisions ==
    "path_collisions" \in ppc =>
        /\ (/\ margin = 0
            /\ \E k \in 1..Len(DenseSamples), b \in 1..Len(pworld) :
                   StrictlyInside(DenseSamples[k], pworld[b]))
              => collisions # <<>>
        /\ (\A k \in 1..Len(DenseSamples), b \in 1..Len(pworld) :
                Dist2(DenseSamples[k], Clamp(DenseSamples[k], pworld[b])) > margin * margin)
              => collisions = <<>>

====
